---- MODULE Spec2Model ----
(***************************************************************************)
(* A model of the FusionGuard trainer pipeline                             *)
(* (src/trainer/fusionguard_trainer): dataset assembly, horizon labeling,  *)
(* window / spectral / anomaly features, calibration and evaluation.       *)
(*                                                                         *)
(* Numbers.  The code computes in IEEE doubles.  The model computes in     *)
(* exact rationals: a number is a pair <<n, d>> with d > 0 in lowest       *)
(* terms; +infinity is <<1, 0>> and NaN (a missing value) is <<0, 0>>.     *)
(* Comparisons with NaN are false, as in IEEE arithmetic.                  *)
(***************************************************************************)
EXTENDS Integers, Sequences, FiniteSets, TLC

VARIABLES
    dfs,        \* build_dataset: the list of source tables (its `dfs` list)
    horizons,   \* label_windows: the list of horizons passed by the caller
    result,     \* build_dataset: the combined table, [cols, rows]
    labels,     \* label_windows: horizon -> list of 0/1, one per row
    pc,         \* position of the pipeline
    y_true,     \* eval.py: the labels given to a metric, a list of 0/1
    y_pred,     \* eval.py: the probabilities given to a metric
    time_to_disruption, \* eval.py: mean_lead_time's third argument
    shot_id,    \* train.py: the shot of each test row (df["shot_id"][test_mask])
    target_fpr, \* eval.py: recall_at_fixed_fpr's target_fpr
    roc,        \* recall_at_fixed_fpr: fpr, thresholds, idx, threshold
    recall,     \* recall_at_fixed_fpr: the value returned
    ece,        \* calibration_error: the value returned
    lead_times, \* mean_lead_time: the list lead_times, with the rows paired
    mean_lead,  \* mean_lead_time: the value returned
    done,       \* the metrics computed so far
    metrics,    \* evaluate: the Metrics returned, or the error raised
    split,      \* train.py: test_split, train_shots, test_shots and the row masks
    cal_in,     \* calibrate.py: the (scores, y_true) of two calibration runs
    cal_out,    \* calibrate.py: what each run returned, (calibrated, params)
    feat_in,    \* features.py: the table df, a second table df2 that differs
                \* from it in one value, windows_ms and sample_rate_hz
    feat_out    \* features.py: the feature columns computed for df and df2

dataVars == <<dfs, horizons, result, labels, pc>>
evalIn == <<y_true, y_pred, time_to_disruption, shot_id, target_fpr>>
evalVars == <<evalIn, roc, recall, ece, lead_times, mean_lead, done, metrics, split>>
calVars == <<cal_in, cal_out>>
featVars == <<feat_in, feat_out>>
vars == <<dataVars, evalVars, calVars, featVars>>

----------------------------------------------------------------------------
(* Exact arithmetic *)

Inf == <<1, 0>>
NaN == <<0, 0>>
NegInf == <<-1, 0>>

Abs(x) == IF x < 0 THEN -x ELSE x
Max(a, b) == IF a >= b THEN a ELSE b
Min(a, b) == IF a <= b THEN a ELSE b

RECURSIVE GCD(_, _)
GCD(a, b) == IF b = 0 THEN a ELSE GCD(b, a % b)

\* the rational n/d (d # 0) in lowest terms with a positive denominator
Rat(n, d) ==
    LET s == IF d < 0 THEN -1 ELSE 1
        g == GCD(Abs(n), Abs(d))
    IN  IF g = 0 THEN <<0, 1>> ELSE <<(s * n) \div g, (s * d) \div g>>

Num(n) == <<n, 1>>
IsNaN(x) == x = NaN
IsFinite(x) == x[2] > 0

\* -1, 0 or 1 as the finite x is below, equal to or above the finite y
\* (whole parts first, then the fractions: the products stay small)
Compare(x, y) ==
    IF x[1] \div x[2] # y[1] \div y[2]
    THEN (IF x[1] \div x[2] < y[1] \div y[2] THEN -1 ELSE 1)
    ELSE IF (x[1] % x[2]) * y[2] = (y[1] % y[2]) * x[2] THEN 0
    ELSE IF (x[1] % x[2]) * y[2] < (y[1] % y[2]) * x[2] THEN -1 ELSE 1

\* x <= y on doubles: false when either side is NaN
Leq(x, y) ==
    IF IsNaN(x) \/ IsNaN(y) THEN FALSE
    ELSE IF x[2] = 0 /\ y[2] = 0 THEN x[1] <= y[1]
    ELSE IF x[2] = 0 THEN x[1] < 0
    ELSE IF y[2] = 0 THEN y[1] > 0
    ELSE Compare(x, y) <= 0

\* x < y on doubles
Less(x, y) ==
    IF IsNaN(x) \/ IsNaN(y) THEN FALSE
    ELSE IF x[2] = 0 /\ y[2] = 0 THEN x[1] < y[1]
    ELSE IF x[2] = 0 THEN x[1] < 0
    ELSE IF y[2] = 0 THEN y[1] > 0
    ELSE Compare(x, y) < 0

\* x - y on doubles (inf - inf = NaN)
Sub(x, y) ==
    IF IsNaN(x) \/ IsNaN(y) THEN NaN
    ELSE IF x[2] = 0 THEN (IF y = x THEN NaN ELSE x)
    ELSE IF y[2] = 0 THEN NegInf
    ELSE Rat(x[1] * y[2] - y[1] * x[2], x[2] * y[2])

\* x + y, x * y, |x|, x / y (y # 0) on finite numbers
Add(x, y) == Rat(x[1] * y[2] + y[1] * x[2], x[2] * y[2])
Mul(x, y) == Rat(x[1] * y[1], x[2] * y[2])
AbsNum(x) == IF x[2] = 0 THEN (IF x = NaN THEN NaN ELSE Inf) ELSE <<Abs(x[1]), x[2]>>
Div(x, y) == Rat(x[1] * y[2], x[2] * y[1])

\* x / k for an integer k > 0
DivInt(x, k) ==
    IF IsFinite(x) THEN Rat(x[1], x[2] * k) ELSE x

----------------------------------------------------------------------------
(* dataset.py: build_dataset *)

\* the columns of a table that build_dataset and label_windows read
Columns == {"time_unix_ns", "disruption_time_unix_ns", "time_to_disruption"}

\* A table is [cols |-> the columns it has, rows |-> its rows]; a row gives a
\* number for each of Columns, NaN for a column the table does not have
\* (what pd.concat fills in for a column only another source has).
MakeSource(cols, p) ==
    [cols |-> cols,
     rows |-> [r \in 1..Len(p.time) |->
        [time_unix_ns |->
            IF "time_unix_ns" \in cols THEN Num(p.time[r]) ELSE NaN,
         disruption_time_unix_ns |->
            IF "disruption_time_unix_ns" \in cols THEN Num(p.disruption) ELSE NaN,
         time_to_disruption |->
            IF "time_to_disruption" \in cols THEN p.ttd[r] ELSE NaN]]]

RECURSIVE ConcatRows(_)
ConcatRows(tables) ==
    IF tables = <<>> THEN <<>>
    ELSE Head(tables).rows \o ConcatRows(Tail(tables))

\* a variant of Concat that keeps the rows of the first table only
ConcatFirstOnly(tables) ==
    [cols |-> UNION {tables[k].cols : k \in 1..Len(tables)},
     rows |-> tables[1].rows]

\* pd.concat(dfs, ignore_index=True): the rows in order, the union of the columns
Concat(tables) ==
    [cols |-> UNION {tables[k].cols : k \in 1..Len(tables)},
     rows |-> ConcatRows(tables)]

\* a variant of ResolveTimeToDisruption that converts ns to microseconds
ResolveWrongUnit(t) ==
    IF "time_to_disruption" \notin t.cols
    THEN [cols |-> t.cols \cup {"time_to_disruption"},
          rows |-> [i \in 1..Len(t.rows) |->
             [t.rows[i] EXCEPT !.time_to_disruption =
                IF "disruption_time_unix_ns" \in t.cols /\ "time_unix_ns" \in t.cols
                THEN DivInt(Sub(t.rows[i].disruption_time_unix_ns,
                                t.rows[i].time_unix_ns), 1000)
                ELSE Inf]]]
    ELSE t

\* dataset.py lines 50-58: "Ensure required columns exist"
ResolveTimeToDisruption(t) ==
    IF "time_to_disruption" \notin t.cols
    THEN [cols |-> t.cols \cup {"time_to_disruption"},
          rows |-> [i \in 1..Len(t.rows) |->
             [t.rows[i] EXCEPT !.time_to_disruption =
                IF "disruption_time_unix_ns" \in t.cols /\ "time_unix_ns" \in t.cols
                THEN DivInt(Sub(t.rows[i].disruption_time_unix_ns,
                                t.rows[i].time_unix_ns), 1000000)
                ELSE Inf]]]
    ELSE t

NoTable == [cols |-> {}, rows |-> <<>>]

\* build_dataset(...): raises ValueError when there is no source
BuildDataset ==
    /\ pc = "start"
    /\ IF dfs = <<>>
       THEN /\ pc' = "error"
            /\ UNCHANGED result
       ELSE /\ result' = ResolveTimeToDisruption(Concat(dfs))
            /\ pc' = "built"
    /\ UNCHANGED <<dfs, horizons, labels, evalVars, calVars, featVars>>

----------------------------------------------------------------------------
(* labeling.py: label_windows *)

\* variants of LabelOf: a strict comparison, and a reversed one
LabelOfStrict(ttd, h) == IF Less(ttd, Num(h)) THEN 1 ELSE 0
LabelOfReversed(ttd, h) == IF Leq(Num(h), ttd) THEN 1 ELSE 0

\* (df["time_to_disruption"] <= h).astype(int) at one row
LabelOf(ttd, h) == IF Leq(ttd, Num(h)) THEN 1 ELSE 0

\* the label columns: one per distinct horizon name label_h{h}
LabelColumns(t, hs) ==
    [h \in {hs[k] : k \in 1..Len(hs)} |->
        [i \in 1..Len(t.rows) |-> LabelOf(t.rows[i].time_to_disruption, h)]]

\* train.main line 74: label_windows on the table build_dataset returned
LabelWindows ==
    /\ pc = "built"
    /\ labels' = LabelColumns(result, horizons)
    /\ pc' = "labeled"
    /\ UNCHANGED <<dfs, horizons, result, evalVars, calVars, featVars>>

----------------------------------------------------------------------------
(* The inputs of the dataset / labeling specification *)

MaxSources == 2
MaxHorizons == 2

HorizonValues == {50, 200}

ColChoices ==
    { {},
      {"time_unix_ns"},
      {"disruption_time_unix_ns"},
      {"time_to_disruption"},
      {"time_unix_ns", "disruption_time_unix_ns"},
      {"time_unix_ns", "time_to_disruption"},
      {"time_unix_ns", "disruption_time_unix_ns", "time_to_disruption"} }

\* sample times and a disruption time in ns, and a supplied time_to_disruption
\* in ms; the first is the table of tests/test_labeling.py
Profiles ==
    { [time |-> <<0, 1500000, 40000000>>, disruption |-> 50000000,
       ttd |-> <<Num(10), Num(60), Num(210)>>],
      [time |-> <<0, 1000000>>, disruption |-> 201000000,
       ttd |-> <<Num(50), Num(200)>>],
      [time |-> <<7000000>>, disruption |-> 5000000,
       ttd |-> <<Inf>>] }

SourcePool == {MakeSource(c, p) : c \in ColChoices, p \in Profiles}

SeqsUpTo(S, n) == UNION {[1..k -> S] : k \in 0..n}

\* evaluate has not been called
NoMetrics == [status |-> "none"]

\* train.main has not split the table
NoSplit == [status |-> "none"]

\* the evaluation variables before any metric is called
IdleEval ==
    /\ y_true = <<>> /\ y_pred = <<>> /\ time_to_disruption = <<>>
    /\ shot_id = <<>> /\ target_fpr = NaN
    /\ roc = <<>> /\ recall = NaN /\ ece = NaN
    /\ lead_times = <<>> /\ mean_lead = NaN /\ done = {}
    /\ metrics = NoMetrics
    /\ split = NoSplit

\* the calibration and feature variables before any call
IdleCal == cal_in = <<>> /\ cal_out = <<>>
IdleFeat == feat_in = <<>> /\ feat_out = <<>>

InitData ==
    /\ IdleEval /\ IdleCal /\ IdleFeat
    /\ dfs \in SeqsUpTo(SourcePool, MaxSources)
    /\ horizons \in SeqsUpTo(HorizonValues, MaxHorizons)
    /\ result = NoTable
    /\ labels = <<>>
    /\ pc = "start"

NextData == BuildDataset \/ LabelWindows

SpecData == InitData /\ [][NextData]_vars

----------------------------------------------------------------------------
(* Properties of build_dataset and label_windows *)

InputRows == ConcatRows(dfs)
InputCols == UNION {dfs[k].cols : k \in 1..Len(dfs)}
Built == pc \in {"built", "labeled"}

\* the source (index into dfs) that row i of the combined table came from
RECURSIVE SourceOfRow(_, _)
SourceOfRow(i, k) ==
    IF i <= Len(dfs[k].rows) THEN k ELSE SourceOfRow(i - Len(dfs[k].rows), k + 1)

\* C1: after label_windows, for every horizon h passed and every row i,
\* label_h{h}[i] is 1 iff time_to_disruption[i] <= h (h itself included) and
\* 0 otherwise; a row whose time_to_disruption is +infinity is 0.
C1_LabelIffWithinHorizon ==
    pc = "labeled" =>
        \A k \in 1..Len(horizons) :
            LET h == horizons[k] IN
            /\ h \in DOMAIN labels
            /\ Len(labels[h]) = Len(result.rows)
            /\ \A i \in 1..Len(result.rows) :
                LET t == result.rows[i].time_to_disruption IN
                /\ labels[h][i] \in {0, 1}
                /\ labels[h][i] = 1 <=> (t[2] > 0 /\ t[1] <= h * t[2])
                /\ t = Inf => labels[h][i] = 0

\* a labeled table with a row exactly on a horizon (labeled 1) and a row
\* at +infinity (labeled 0)
C1_Witness ==
    /\ pc = "labeled"
    /\ \E k \in 1..Len(horizons) : \E i, j \in 1..Len(result.rows) :
        /\ result.rows[i].time_to_disruption = Num(horizons[k])
        /\ labels[horizons[k]][i] = 1
        /\ result.rows[j].time_to_disruption = Inf
        /\ labels[horizons[k]][j] = 0

\* C7: labeler monotonicity: for horizons h1 < h2 passed to label_windows and
\* every row i, label_h{h1}[i] = 1 implies label_h{h2}[i] = 1.
C7_LabelMonotone ==
    pc = "labeled" =>
        \A h1, h2 \in DOMAIN labels :
            h1 < h2 =>
                \A i \in 1..Len(result.rows) :
                    labels[h1][i] = 1 => labels[h2][i] = 1

\* two horizons, a row positive under both and a row positive under the
\* larger one only
C7_Witness ==
    /\ pc = "labeled"
    /\ \E h1, h2 \in DOMAIN labels : \E i, j \in 1..Len(result.rows) :
        /\ h1 < h2
        /\ labels[h1][i] = 1 /\ labels[h2][i] = 1
        /\ labels[h1][j] = 0 /\ labels[h2][j] = 1

\* C8: build_dataset resolves time_to_disruption: without the column but with
\* disruption_time_unix_ns and time_unix_ns every row gets
\* (disruption_time_unix_ns - time_unix_ns) / 1e6; with neither the column nor
\* disruption_time_unix_ns every row gets +infinity; with the column present
\* every row keeps the value supplied.
C8_ResolveTimeToDisruption ==
    Built =>
        /\ Len(result.rows) = Len(InputRows)
        /\ \A i \in 1..Len(InputRows) :
            LET in == InputRows[i]
                out == result.rows[i].time_to_disruption
                d == in.disruption_time_unix_ns
                t == in.time_unix_ns
            IN  /\ ("time_to_disruption" \notin InputCols
                    /\ "disruption_time_unix_ns" \in InputCols
                    /\ "time_unix_ns" \in InputCols)
                    => IF d[2] = 1 /\ t[2] = 1
                       THEN /\ out[2] > 0
                            /\ out[1] * 1000000 = (d[1] - t[1]) * out[2]
                       ELSE out = NaN
                /\ ("time_to_disruption" \notin InputCols
                    /\ "disruption_time_unix_ns" \notin InputCols)
                    => out = Inf
                /\ "time_to_disruption" \in InputCols
                    => out = in.time_to_disruption

\* a table built from sources without the column, where a row's difference
\* of 48 500 000 ns resolved to 48.5 ms
C8_Witness ==
    /\ Built
    /\ "time_to_disruption" \notin InputCols
    /\ \E i \in 1..Len(result.rows) :
        /\ InputRows[i].disruption_time_unix_ns = Num(50000000)
        /\ InputRows[i].time_unix_ns = Num(1500000)
        /\ result.rows[i].time_to_disruption = <<97, 2>>

\* C9: after build_dataset no row has a missing time_to_disruption: every row
\* of a source that carries no disruption information (neither
\* time_to_disruption nor disruption_time_unix_ns) has +infinity, also when
\* another source carries the column, and label_windows labels it 0.
C9_NoMissingTimeToDisruption ==
    /\ Built =>
        \A i \in 1..Len(result.rows) :
            /\ result.rows[i].time_to_disruption # NaN
            /\ dfs[SourceOfRow(i, 1)].cols \cap
                    {"time_to_disruption", "disruption_time_unix_ns"} = {}
                => result.rows[i].time_to_disruption = Inf
    /\ pc = "labeled" =>
        \A h \in DOMAIN labels : \A i \in 1..Len(result.rows) :
            dfs[SourceOfRow(i, 1)].cols \cap
                    {"time_to_disruption", "disruption_time_unix_ns"} = {}
                => labels[h][i] = 0

\* the number of rows of the sources k..Len(dfs) taken together
RECURSIVE RowsFrom(_)
RowsFrom(k) == IF k > Len(dfs) THEN 0 ELSE Len(dfs[k].rows) + RowsFrom(k + 1)

\* C16: build_dataset given at least one source returns a table with one row
\* per input row of all its sources together; resolving time_to_disruption
\* adds a column and no rows.
C16_RowCount ==
    Built =>
        /\ Len(dfs) >= 1
        /\ Len(result.rows) = RowsFrom(1)
        /\ result.cols = InputCols \cup {"time_to_disruption"}

\* two sources of 3 and 2 rows without time_to_disruption: 5 rows and the
\* added column
C16_Witness ==
    /\ Built
    /\ Len(dfs) = 2
    /\ Len(dfs[1].rows) = 3 /\ Len(dfs[2].rows) = 2
    /\ "time_to_disruption" \notin InputCols
    /\ Len(result.rows) = 5
    /\ "time_to_disruption" \in result.cols

----------------------------------------------------------------------------
(* eval.py: recall_at_fixed_fpr *)

\* the elements of a finite set of numbers as a list, largest first
RECURSIVE SortDesc(_)
SortDesc(S) ==
    IF S = {} THEN <<>>
    ELSE LET m == CHOOSE x \in S : \A y \in S : Leq(y, x)
         IN  <<m>> \o SortDesc(S \ {m})

\* the elements of list q at the indices in K, in order
RECURSIVE SelectIdx(_, _, _)
SelectIdx(q, K, k) ==
    IF k > Len(q) THEN <<>>
    ELSE (IF k \in K THEN <<q[k]>> ELSE <<>>) \o SelectIdx(q, K, k + 1)

\* sklearn.metrics.roc_curve(y_true, y_pred) as eval.py line 27 calls it
\* (drop_intermediate=True): one point per distinct score, highest first,
\* points collinear with their neighbours dropped, the point (0, 0) with
\* threshold +inf prepended; fpr is NaN when there is no negative sample.

\* the distinct scores, highest first
DistinctScores(yp) == SortDesc({yp[i] : i \in 1..Len(yp)})

\* the number of samples of class `cls` (1: positive, 0: negative) with a
\* score >= t
CountAtLeast(yt, yp, t, cls) ==
    Cardinality({i \in 1..Len(yt) : (yt[i] = 1) = (cls = 1) /\ Leq(t, yp[i])})

CumulativeCounts(yt, yp, thr, cls) ==
    [k \in 1..Len(thr) |-> CountAtLeast(yt, yp, thr[k], cls)]

\* drop_intermediate: the indices kept, the ends and every corner
KeptPoints(fps, tps) ==
    IF Len(fps) > 2
    THEN {k \in 1..Len(fps) :
            \/ k = 1
            \/ k = Len(fps)
            \/ fps[k + 1] - 2 * fps[k] + fps[k - 1] # 0
            \/ tps[k + 1] - 2 * tps[k] + tps[k - 1] # 0}
    ELSE 1..Len(fps)

\* counts / counts[-1], NaN when counts[-1] <= 0
Rates(counts) ==
    [k \in 1..Len(counts) |->
        IF counts[Len(counts)] <= 0 THEN NaN
        ELSE Rat(counts[k], counts[Len(counts)])]

RocPoints(fps, tps, thr, keep) ==
    [fps |-> <<0>> \o SelectIdx(fps, keep, 1),
     tps |-> <<0>> \o SelectIdx(tps, keep, 1),
     thresholds |-> <<Inf>> \o SelectIdx(thr, keep, 1)]

RocRates(pts) ==
    [fps |-> pts.fps, tps |-> pts.tps, fpr |-> Rates(pts.fps),
     tpr |-> Rates(pts.tps), thresholds |-> pts.thresholds]

RocCounts(yt, yp, thr) ==
    RocPoints(CumulativeCounts(yt, yp, thr, 0), CumulativeCounts(yt, yp, thr, 1),
              thr,
              KeptPoints(CumulativeCounts(yt, yp, thr, 0),
                         CumulativeCounts(yt, yp, thr, 1)))

RocCurve(yt, yp) == RocRates(RocCounts(yt, yp, DistinctScores(yp)))

\* a variant of ArgMin that returns the last index of the minimum
ArgMinLast(v) ==
    IF \E k \in 1..Len(v) : IsNaN(v[k])
    THEN CHOOSE k \in 1..Len(v) :
            IsNaN(v[k]) /\ \A j \in 1..(k - 1) : ~IsNaN(v[j])
    ELSE CHOOSE k \in 1..Len(v) :
            /\ \A j \in 1..Len(v) : Leq(v[k], v[j])
            /\ \A j \in (k + 1)..Len(v) : Less(v[k], v[j])

\* np.argmin (1-based here): the first index of the minimum; the first NaN
\* when there is one
ArgMin(v) ==
    IF \E k \in 1..Len(v) : IsNaN(v[k])
    THEN CHOOSE k \in 1..Len(v) :
            IsNaN(v[k]) /\ \A j \in 1..(k - 1) : ~IsNaN(v[j])
    ELSE CHOOSE k \in 1..Len(v) :
            /\ \A j \in 1..Len(v) : Leq(v[k], v[j])
            /\ \A j \in 1..(k - 1) : Less(v[k], v[j])

\* eval.py line 30: np.argmin(np.abs(fpr - target_fpr))
ClosestPoint(fpr, target) ==
    ArgMin([k \in 1..Len(fpr) |-> AbsNum(Sub(fpr[k], target))])

\* eval.py line 31
ThresholdAt(thresholds, idx) ==
    IF idx <= Len(thresholds) THEN thresholds[idx] ELSE <<1, 2>>

\* eval.py lines 34-38: tp / max(1, tp + fn) of y_pred >= threshold
RecallAt(yt, yp, threshold) ==
    Rat(Cardinality({i \in 1..Len(yt) : yt[i] = 1 /\ Leq(threshold, yp[i])}),
        Max(1, Cardinality({i \in 1..Len(yt) : yt[i] = 1 /\ Leq(threshold, yp[i])})
               + Cardinality({i \in 1..Len(yt) : yt[i] = 1 /\ ~Leq(threshold, yp[i])})))

RecallSelect(c, idx) ==
    [fps |-> c.fps, fpr |-> c.fpr, thresholds |-> c.thresholds,
     idx |-> idx, threshold |-> ThresholdAt(c.thresholds, idx)]

\* eval.py lines 27-31: the curve, the index selected and its threshold
RecallOperatingPoint(c, target) == RecallSelect(c, ClosestPoint(c.fpr, target))

\* eval.py lines 25-39
RecallAtFixedFprCall ==
    /\ "recall" \notin done
    /\ roc' = RecallOperatingPoint(RocCurve(y_true, y_pred), target_fpr)
    /\ recall' = RecallAt(y_true, y_pred, roc'.threshold)
    /\ done' = done \cup {"recall"}
    /\ UNCHANGED <<dataVars, calVars, featVars, evalIn, ece, lead_times, mean_lead, metrics,
                   split>>

----------------------------------------------------------------------------
(* eval.py: calibration_error *)

n_bins == 10

\* a variant of InBin with the bin closed below and open above
InBinClosedBelow(p, lower, upper) == Leq(lower, p) /\ Less(p, upper)

\* eval.py line 81: (y_pred_array > bin_lower) & (y_pred_array <= bin_upper)
InBin(p, lower, upper) == Less(lower, p) /\ Leq(p, upper)

\* the sum of the integers f[i] (resp. numbers) over the indices in K
RECURSIVE SumInt(_, _)
SumInt(f, K) ==
    IF K = {} THEN 0
    ELSE LET i == CHOOSE x \in K : TRUE IN f[i] + SumInt(f, K \ {i})

RECURSIVE SumNum(_, _)
SumNum(f, K) ==
    IF K = {} THEN Num(0)
    ELSE LET i == CHOOSE x \in K : TRUE IN Add(f[i], SumNum(f, K \ {i}))

\* a variant of BinTerm that does not weight the gap by the bin's share of
\* the samples
BinTermUnweighted(yt, yp, k, bins) ==
    LET in_bin == {i \in 1..Len(yp) : InBin(yp[i], Rat(k, bins), Rat(k + 1, bins))}
    IN  IF in_bin # {}
        THEN AbsNum(Sub(Div(SumNum(yp, in_bin), Num(Cardinality(in_bin))),
                        Rat(SumInt(yt, in_bin), Cardinality(in_bin))))
        ELSE Num(0)

\* the term one bin adds to ece (eval.py lines 79-90), 0 for an empty bin
BinTerm(yt, yp, k, bins) ==
    LET bin_lower == Rat(k, bins)
        bin_upper == Rat(k + 1, bins)
        in_bin == {i \in 1..Len(yp) : InBin(yp[i], bin_lower, bin_upper)}
        prop_in_bin == Rat(Cardinality(in_bin), Len(yp))
    IN  IF Less(Num(0), prop_in_bin)
        THEN LET accuracy_in_bin == Rat(SumInt(yt, in_bin), Cardinality(in_bin))
                 avg_confidence_in_bin ==
                     Div(SumNum(yp, in_bin), Num(Cardinality(in_bin)))
             IN  Mul(AbsNum(Sub(avg_confidence_in_bin, accuracy_in_bin)),
                     prop_in_bin)
        ELSE Num(0)

\* eval.py lines 69-92, for a non-empty input
CalibrationError(yt, yp, bins) ==
    SumNum([k \in 0..(bins - 1) |-> BinTerm(yt, yp, k, bins)], 0..(bins - 1))

CalibrationErrorCall ==
    /\ "ece" \notin done
    /\ ece' = CalibrationError(y_true, y_pred, n_bins)
    /\ done' = done \cup {"ece"}
    /\ UNCHANGED <<dataVars, calVars, featVars, evalIn, roc, recall, lead_times, mean_lead,
                   metrics, split>>

----------------------------------------------------------------------------
(* The inputs of the metrics specification *)

MaxEvalRows == 3

\* probabilities: 0, the bin boundaries 0.1 and 0.4, mid-bin 0.35, and 1
PredValues == {Num(0), <<1, 10>>, <<7, 20>>, <<2, 5>>, Num(1)}
TargetValues == {Num(0), <<1, 100>>, <<1, 2>>}

IdleData ==
    /\ dfs = <<>> /\ horizons = <<>> /\ result = NoTable
    /\ labels = <<>> /\ pc = "idle"

InitEval ==
    /\ IdleData /\ IdleCal /\ IdleFeat
    /\ \E n \in 1..MaxEvalRows :
        /\ y_true \in [1..n -> {0, 1}]
        /\ y_pred \in [1..n -> PredValues]
    /\ time_to_disruption = <<>>
    /\ shot_id = <<>>
    /\ target_fpr \in TargetValues
    /\ roc = <<>> /\ recall = NaN /\ ece = NaN
    /\ lead_times = <<>> /\ mean_lead = NaN /\ done = {}
    /\ metrics = NoMetrics
    /\ split = NoSplit

NextEval == RecallAtFixedFprCall \/ CalibrationErrorCall

SpecEval == InitEval /\ [][NextEval]_vars

----------------------------------------------------------------------------
(* Properties of recall_at_fixed_fpr and calibration_error *)

\* p >= t for a finite probability p and a threshold t that may be +inf
AtLeast(p, t) == t[2] > 0 /\ p[1] * t[2] >= t[1] * p[2]

\* |fps[k] / negatives - target_fpr|, times negatives * target_fpr's denominator
FprDistance(k) ==
    Abs(roc.fps[k] * target_fpr[2] - target_fpr[1] * roc.fps[Len(roc.fps)])

\* C6: recall_at_fixed_fpr selects the first point of the ROC curve, in the
\* curve's order, whose false-positive rate minimises |fpr - target_fpr|,
\* and returns TP / (TP + FN) of the predictions y_pred >= that point's
\* threshold; with target_fpr = 0 the point has the least false-positive rate
\* of the curve.  (The rates are defined when there is a negative sample,
\* the recall when there is a positive one.)
C6_RecallAtClosestFpr ==
    "recall" \in done =>
        LET last == Len(roc.fps)
            TP == Cardinality({i \in 1..Len(y_true) :
                     y_true[i] = 1 /\ AtLeast(y_pred[i], roc.threshold)})
            FN == Cardinality({i \in 1..Len(y_true) :
                     y_true[i] = 1 /\ ~AtLeast(y_pred[i], roc.threshold)})
        IN  /\ roc.idx \in 1..last
            /\ roc.threshold = roc.thresholds[roc.idx]
            /\ roc.fps[last] > 0 =>
                /\ \A k \in 1..last : FprDistance(roc.idx) <= FprDistance(k)
                /\ \A k \in 1..(roc.idx - 1) : FprDistance(roc.idx) < FprDistance(k)
                /\ target_fpr = Num(0) =>
                      \A k \in 1..last : roc.fps[roc.idx] <= roc.fps[k]
            /\ TP + FN > 0 =>
                /\ recall[2] > 0
                /\ recall[1] * (TP + FN) = TP * recall[2]

\* two points of the curve are equally close to the target, the first is
\* selected, and the recall at its threshold differs from the other's
C6_Witness ==
    /\ "recall" \in done
    /\ target_fpr = <<1, 2>>
    /\ roc.idx = 2
    /\ Len(roc.fps) = 4
    /\ roc.fpr[2] = <<1, 2>> /\ roc.fpr[3] = <<1, 2>>
    /\ recall = Num(0)
    /\ \E i \in 1..Len(y_true) :
          y_true[i] = 1 /\ AtLeast(y_pred[i], roc.thresholds[3])

\* the probability p = a/b in hundredths (the values of PredValues are whole
\* hundredths)
Percent(p) == (p[1] * 100) \div p[2]

\* the rows of bin k = (k/10, (k+1)/10]
BinRows(k) ==
    {i \in 1..Len(y_pred) :
        10 * k < Percent(y_pred[i]) /\ Percent(y_pred[i]) <= 10 * (k + 1)}

\* C10: calibration_error uses the 10 half-open bins (k/10, (k+1)/10] and
\* returns the sum over the non-empty bins of
\* |average probability - average label| * (bin count / total count); a
\* sample with probability exactly 0 is in no bin, adds nothing to the sum
\* and still counts in the total.
C10_CalibrationErrorBins ==
    "ece" \in done =>
        LET gaps == [k \in 0..9 |->
                Abs(SumInt([i \in 1..Len(y_pred) |-> Percent(y_pred[i])], BinRows(k))
                    - 100 * SumInt(y_true, BinRows(k)))]
        IN  /\ ece[2] > 0
            /\ ece[1] * 100 * Len(y_pred) = SumInt(gaps, 0..9) * ece[2]
            /\ \A i \in 1..Len(y_pred) :
                  y_pred[i] = Num(0) => \A k \in 0..9 : i \notin BinRows(k)
            /\ (\A i \in 1..Len(y_pred) : y_pred[i] = Num(0)) => ece = Num(0)

\* labels (1, 1), probabilities (0, 0.1): only the second sample is in a bin,
\* and its gap 0.9 is weighted 1/2
C10_Witness ==
    /\ "ece" \in done
    /\ y_true = <<1, 1>>
    /\ y_pred = <<Num(0), <<1, 10>>>>
    /\ ece = <<9, 20>>

\* C11: for a non-empty input with labels in {0, 1} and probabilities in
\* [0, 1], calibration_error returns a value in [0, 1].
C11_CalibrationErrorBounds ==
    "ece" \in done => Leq(Num(0), ece) /\ Leq(ece, Num(1))

\* the upper end is reached: probability 1 on two labels 0 gives 1
C11_Witness ==
    /\ "ece" \in done
    /\ y_pred = <<Num(1), Num(1)>>
    /\ y_true = <<0, 0>>
    /\ ece = Num(1)

----------------------------------------------------------------------------
(* eval.py: mean_lead_time, on the test rows train.main passes to evaluate *)

\* mean_lead_time's default threshold, 0.5
DefaultThreshold == <<1, 2>>

\* eval.py lines 59-60: the first j, scanning from i down to row 1 (index 0 in
\* the code), with y_pred[j] >= threshold; 0 when there is none
RECURSIVE FirstCrossing(_, _, _)
FirstCrossing(yp, j, threshold) ==
    IF j = 0 THEN 0
    ELSE IF Leq(threshold, yp[j]) THEN j
    ELSE FirstCrossing(yp, j - 1, threshold)

\* a variant of LeadTimes that records time[j] - time[i]
RECURSIVE LeadTimesReversed(_, _, _, _, _)
LeadTimesReversed(yt, yp, ttd, threshold, i) ==
    IF i = 0 THEN <<>>
    ELSE LET before == LeadTimesReversed(yt, yp, ttd, threshold, i - 1)
             j == FirstCrossing(yp, i, threshold)
         IN  IF yt[i] = 1 /\ Less(ttd[i], Inf) /\ j > 0
                /\ Less(Num(0), Sub(ttd[j], ttd[i]))
             THEN Append(before, [i |-> i, j |-> j, lead_time |-> Sub(ttd[j], ttd[i])])
             ELSE before

\* eval.py lines 54-64: the list lead_times after the loop has handled rows
\* 1..i, each entry with the rows i and j it was computed from
RECURSIVE LeadTimes(_, _, _, _, _)
LeadTimes(yt, yp, ttd, threshold, i) ==
    IF i = 0 THEN <<>>
    ELSE LET before == LeadTimes(yt, yp, ttd, threshold, i - 1)
             j == FirstCrossing(yp, i, threshold)
         IN  IF yt[i] = 1 /\ Less(ttd[i], Inf) /\ j > 0
                /\ Less(Num(0), Sub(ttd[i], ttd[j]))
             THEN Append(before, [i |-> i, j |-> j, lead_time |-> Sub(ttd[i], ttd[j])])
             ELSE before

\* eval.py line 66: np.mean(lead_times) if lead_times else 0.0
MeanOf(lt) ==
    IF lt = <<>> THEN Num(0)
    ELSE Div(SumNum([k \in 1..Len(lt) |-> lt[k].lead_time], 1..Len(lt)),
             Num(Len(lt)))

\* eval.py lines 42-66, as evaluate calls it (eval.py line 107)
MeanLeadTimeCall ==
    /\ "lead" \notin done
    /\ lead_times' = LeadTimes(y_true, y_pred, time_to_disruption,
                               DefaultThreshold, Len(y_pred))
    /\ mean_lead' = MeanOf(lead_times')
    /\ done' = done \cup {"lead"}
    /\ UNCHANGED <<dataVars, calVars, featVars, evalIn, roc, recall, ece, metrics,
                   split>>

MaxShots == 2

\* the time_to_disruption of the rows of one shot, in time order: three
\* disruptive shots and a disruption-free one
ShotProfiles == { <<Num(60), Num(10)>>, <<Num(210), Num(40)>>, <<Num(40)>>,
                  <<Inf, Inf>> }
LeadPreds == {<<1, 10>>, <<1, 2>>}

\* a shot of the test set: its time_to_disruption and the model's
\* probability at each of its rows
TestShots ==
    UNION {[ttd : {prof}, pred : [1..Len(prof) -> LeadPreds]] : prof \in ShotProfiles}

RECURSIVE ShotRows(_, _)
ShotRows(shots, k) ==
    IF k > Len(shots) THEN <<>>
    ELSE [r \in 1..Len(shots[k].ttd) |->
            [shot |-> k, ttd |-> shots[k].ttd[r], pred |-> shots[k].pred[r]]]
         \o ShotRows(shots, k + 1)

\* train.py lines 91-101 and 175-180: y_test, the probabilities and
\* time_to_disruption of the rows df[test_mask], the test shots one after the
\* other in the table's order; y is the label column of one horizon.  Both
\* classes occur in y_test: evaluate calls roc_auc_score (eval.py line 101)
\* before mean_lead_time, and that needs both.
InitLead ==
    /\ IdleData /\ IdleCal /\ IdleFeat
    /\ \E shots \in UNION {[1..k -> TestShots] : k \in 1..MaxShots} :
       \E h \in HorizonValues :
        LET rows == ShotRows(shots, 1) IN
        /\ {LabelOf(rows[i].ttd, h) : i \in 1..Len(rows)} = {0, 1}
        /\ y_true = [i \in 1..Len(rows) |-> LabelOf(rows[i].ttd, h)]
        /\ y_pred = [i \in 1..Len(rows) |-> rows[i].pred]
        /\ time_to_disruption = [i \in 1..Len(rows) |-> rows[i].ttd]
        /\ shot_id = [i \in 1..Len(rows) |-> rows[i].shot]
    /\ target_fpr = NaN
    /\ roc = <<>> /\ recall = NaN /\ ece = NaN
    /\ lead_times = <<>> /\ mean_lead = NaN /\ done = {}
    /\ metrics = NoMetrics
    /\ split = NoSplit

NextLead == MeanLeadTimeCall

SpecLead == InitLead /\ [][NextLead]_vars

\* C3: the backward scan of mean_lead_time never pairs rows of different
\* shots: for every recorded lead time time[i] - time[j], rows i and j are
\* of the same shot, also on the concatenated rows of several test shots.
C3_LeadTimeWithinOneShot ==
    "lead" \in done =>
        \A k \in 1..Len(lead_times) :
            shot_id[lead_times[k].i] = shot_id[lead_times[k].j]

(* mean_lead_time called directly, with any labels, probabilities,        *)
(* time_to_disruption and threshold.                                       *)

\* eval.py lines 42-66
MeanLeadTime(threshold) ==
    /\ "lead" \notin done
    /\ lead_times' = LeadTimes(y_true, y_pred, time_to_disruption, threshold,
                               Len(y_pred))
    /\ mean_lead' = MeanOf(lead_times')
    /\ done' = done \cup {"lead"}
    /\ UNCHANGED <<dataVars, calVars, featVars, evalIn, roc, recall, ece, metrics,
                   split>>

MaxLeadRows == 3

LeadTimeValues == {Num(10), Num(60), Inf}
LeadThresholds == {Num(0), <<1, 2>>, Num(1)}

InitLeadAny ==
    /\ IdleData /\ IdleCal /\ IdleFeat
    /\ \E n \in 1..MaxLeadRows :
        /\ y_true \in [1..n -> {0, 1}]
        /\ y_pred \in [1..n -> LeadPreds]
        /\ time_to_disruption \in [1..n -> LeadTimeValues]
    /\ shot_id = <<>>
    /\ target_fpr = NaN
    /\ roc = <<>> /\ recall = NaN /\ ece = NaN
    /\ lead_times = <<>> /\ mean_lead = NaN /\ done = {}
    /\ metrics = NoMetrics
    /\ split = NoSplit

NextLeadAny == \E threshold \in LeadThresholds : MeanLeadTime(threshold)

SpecLeadAny == InitLeadAny /\ [][NextLeadAny]_vars

\* time_to_disruption does not increase along the row order
NonIncreasing(ttd) ==
    \A i, j \in 1..Len(ttd) : i < j => Leq(ttd[j], ttd[i])

----------------------------------------------------------------------------
(* eval.py: evaluate *)

\* sklearn.metrics.auc(fpr, tpr): the trapezoid rule over the points 1..k
RECURSIVE Trapezoid(_, _, _)
Trapezoid(x, y, k) ==
    IF k <= 1 THEN Num(0)
    ELSE Add(Trapezoid(x, y, k - 1),
             Div(Mul(Sub(x[k], x[k - 1]), Add(y[k], y[k - 1])), Num(2)))

\* roc_auc_score(y_true, y_pred) on labels of both classes
RocAuc(c) == Trapezoid(c.fpr, c.tpr, Len(c.fpr))

\* precision and recall at the k-th highest distinct score; recall is 1 at
\* every threshold when there is no positive sample
PrecisionAt(yt, yp, thr, k) ==
    Rat(CountAtLeast(yt, yp, thr[k], 1),
        CountAtLeast(yt, yp, thr[k], 1) + CountAtLeast(yt, yp, thr[k], 0))

RecallAtRank(yt, yp, thr, k) ==
    IF k = 0 THEN Num(0)
    ELSE IF CountAtLeast(yt, yp, thr[Len(thr)], 1) = 0 THEN Num(1)
    ELSE Rat(CountAtLeast(yt, yp, thr[k], 1), CountAtLeast(yt, yp, thr[Len(thr)], 1))

\* average_precision_score(y_true, y_pred): the sum over the thresholds of
\* (recall step) * precision
RECURSIVE AveragePrecision(_, _, _, _)
AveragePrecision(yt, yp, thr, k) ==
    IF k = 0 THEN Num(0)
    ELSE Add(AveragePrecision(yt, yp, thr, k - 1),
             Mul(Sub(RecallAtRank(yt, yp, thr, k), RecallAtRank(yt, yp, thr, k - 1)),
                 PrecisionAt(yt, yp, thr, k)))

\* brier_score_loss(y_true, y_pred): the mean of (y_pred - y_true)^2
BrierScore(yt, yp) ==
    Div(SumNum([i \in 1..Len(yp) |->
                   Mul(Sub(yp[i], Num(yt[i])), Sub(yp[i], Num(yt[i])))],
               1..Len(yp)),
        Num(Len(yp)))

\* eval.py lines 107-109
MeanLeadOf(yt, yp, ttd) ==
    IF ttd = <<>> THEN Num(0)
    ELSE MeanOf(LeadTimes(yt, yp, ttd, DefaultThreshold, Len(yp)))

\* eval.py lines 102-118, given the value of roc_auc_score
MetricsOf(yt, yp, ttd, roc_auc) ==
    [status            |-> "ok",
     roc_auc           |-> roc_auc,
     pr_auc            |-> AveragePrecision(yt, yp, DistinctScores(yp),
                                            Len(DistinctScores(yp))),
     recall_at_fpr     |-> RecallAt(yt, yp,
                               RecallOperatingPoint(RocCurve(yt, yp), <<1, 100>>).threshold),
     mean_lead_time_ms |-> MeanLeadOf(yt, yp, ttd),
     brier_score       |-> BrierScore(yt, yp),
     calibration_error |-> CalibrationError(yt, yp, n_bins)]

EvaluateRaised == [status |-> "error"]

SingleClass(yt) == {yt[i] : i \in 1..Len(yt)} # {0, 1}

\* eval.py lines 95-118.  evaluate itself does not look at the classes of
\* y_true: on a single class the outcome is that of roc_auc_score (line
\* 101), which raises ValueError in scikit-learn before 1.6 and returns NaN
\* with a warning from 1.6 on; the repository pins no version.
Evaluate ==
    /\ metrics = NoMetrics
    /\ IF SingleClass(y_true)
       THEN \/ metrics' = EvaluateRaised
            \/ metrics' = MetricsOf(y_true, y_pred, time_to_disruption, NaN)
       ELSE metrics' = MetricsOf(y_true, y_pred, time_to_disruption,
                                 RocAuc(RocCurve(y_true, y_pred)))
    /\ UNCHANGED <<dataVars, calVars, featVars, evalIn, roc, recall, ece,
                   lead_times, mean_lead, done, split>>

MaxMetricRows == 2

InitEvaluate ==
    /\ IdleData /\ IdleCal /\ IdleFeat
    /\ \E n \in 1..MaxMetricRows :
        /\ y_true \in [1..n -> {0, 1}]
        /\ y_pred \in [1..n -> PredValues]
        /\ time_to_disruption \in {<<>>} \cup [1..n -> {Num(10), Num(60)}]
    /\ shot_id = <<>>
    /\ target_fpr = NaN
    /\ roc = <<>> /\ recall = NaN /\ ece = NaN
    /\ lead_times = <<>> /\ mean_lead = NaN /\ done = {}
    /\ metrics = NoMetrics
    /\ split = NoSplit

NextEvaluate == Evaluate

SpecEvaluate == InitEvaluate /\ [][NextEvaluate]_vars

\* C13: evaluate called with labels of a single class (all 0 or all 1) ends
\* in an error and returns no Metrics value.
C13_SingleClassRaises ==
    (SingleClass(y_true) /\ metrics # NoMetrics) => metrics = EvaluateRaised

----------------------------------------------------------------------------
(* train.py: the train / test split of main, lines 93-101, on a table with *)
(* a shot_id column.  shot_id is the column, one shot per row.             *)

\* the smallest integer >= a / b, for a >= 0 and b > 0
Ceil(a, b) == (a + b - 1) \div b

\* df["shot_id"].unique()
UniqueShots(column) == {column[i] : i \in 1..Len(column)}

\* train_test_split with a float test_size: n_test = ceil(test_size * n)
NumTest(n, test_size) == Ceil(test_size[1] * n, test_size[2])

\* a variant of RowMask that tests the row's position, not its shot
RowMaskByPosition(column, shots) == {i \in 1..Len(column) : i \in shots}

\* df["shot_id"].isin(shots): the rows whose shot is in shots
RowMask(column, shots) == {i \in 1..Len(column) : column[i] \in shots}

SplitRaised == [status |-> "error"]

\* train.py lines 96-98 with the first n_test shots of the shuffled order as
\* test_shots and the others as train_shots
SplitOf(column, test_size, test_shots) ==
    [status      |-> "ok",
     test_size   |-> test_size,
     train_shots |-> UniqueShots(column) \ test_shots,
     test_shots  |-> test_shots,
     train_mask  |-> RowMask(column, UniqueShots(column) \ test_shots),
     test_mask   |-> RowMask(column, test_shots)]

\* train.py lines 94-101.  train_test_split shuffles unique_shots with the
\* seed and cuts the order after n_test: any n_test of the shots can be the
\* test shots.  It raises ValueError when no shot is left for training.
SplitByShot(test_size) ==
    /\ split = NoSplit
    /\ IF NumTest(Cardinality(UniqueShots(shot_id)), test_size)
            >= Cardinality(UniqueShots(shot_id))
       THEN split' = SplitRaised
       ELSE \E test_shots \in SUBSET UniqueShots(shot_id) :
                /\ Cardinality(test_shots)
                      = NumTest(Cardinality(UniqueShots(shot_id)), test_size)
                /\ split' = SplitOf(shot_id, test_size, test_shots)
    /\ UNCHANGED <<dataVars, calVars, featVars, evalIn, roc, recall, ece,
                   lead_times, mean_lead, done, metrics>>

MaxSplitRows == 4

ShotIds == {1, 2, 3}
TestSplits == { <<1, 5>>, <<1, 2>> }

InitSplit ==
    /\ IdleData /\ IdleCal /\ IdleFeat
    /\ y_true = <<>> /\ y_pred = <<>> /\ time_to_disruption = <<>>
    /\ shot_id \in UNION { [1..n -> ShotIds] : n \in 1..MaxSplitRows }
    /\ target_fpr = NaN
    /\ roc = <<>> /\ recall = NaN /\ ece = NaN
    /\ lead_times = <<>> /\ mean_lead = NaN /\ done = {}
    /\ metrics = NoMetrics
    /\ split = NoSplit

NextSplit == \E test_size \in TestSplits : SplitByShot(test_size)

SpecSplit == InitSplit /\ [][NextSplit]_vars

\* C19: with a shot_id column, the train and test row sets are disjoint and
\* no shot has rows in both: every row of a shot goes to the same side, and
\* every row goes to one side.
C19_SplitByShotDisjoint ==
    split.status = "ok" =>
        /\ split.train_mask \cap split.test_mask = {}
        /\ split.train_mask \cup split.test_mask = 1..Len(shot_id)
        /\ \A i \in split.train_mask : \A j \in split.test_mask :
              shot_id[i] # shot_id[j]
        /\ \A i, j \in 1..Len(shot_id) :
              shot_id[i] = shot_id[j] => (i \in split.test_mask <=> j \in split.test_mask)

\* rows of shots 1, 2, 1, 3: shot 1 is the test shot, and both of its rows
\* (the first and the third) are test rows
C19_Witness ==
    /\ split.status = "ok"
    /\ shot_id = <<1, 2, 1, 3>>
    /\ split.test_shots = {1}
    /\ split.test_mask = {1, 3}
    /\ split.train_mask = {2, 4}

----------------------------------------------------------------------------
(* calibrate.py: platt_calibrate, isotonic_calibrate *)

\* A calibrated value is a rational, [fn |-> "value", arg |-> q], or the
\* logistic function 1 / (1 + exp(-z)) of a rational z,
\* [fn |-> "sigmoid", arg |-> z]; the sigmoid is one-to-one and rational
\* only at z = 0, so two calibrated values are equal iff their terms are.
Value(q) == [fn |-> "value", arg |-> q]
Sigmoid(z) == IF z = Num(0) THEN Value(<<1, 2>>) ELSE [fn |-> "sigmoid", arg |-> z]

MinNum(S) == CHOOSE x \in S : \A y \in S : Leq(x, y)
MaxNum(S) == CHOOSE x \in S : \A y \in S : Leq(y, x)

ScoreSet(scores) == {scores[i] : i \in 1..Len(scores)}

\* calibrate.py line 51: 1e-9
RangeEpsilon == <<1, 1000000000>>

\* calibrate.py lines 47-57: min-max normalisation of the batch, then sigmoid
Normalized(scores, i) ==
    IF Less(RangeEpsilon, Sub(MaxNum(ScoreSet(scores)), MinNum(ScoreSet(scores))))
    THEN Div(Sub(scores[i], MinNum(ScoreSet(scores))),
             Sub(MaxNum(ScoreSet(scores)), MinNum(ScoreSet(scores))))
    ELSE scores[i]

PlattNormalized(scores) ==
    [status |-> "ok",
     calibrated |-> [i \in 1..Len(scores) |-> Sigmoid(Normalized(scores, i))],
     params |-> [kind |-> "platt", scale |-> Num(1), offset |-> Num(0),
                 version |-> "normalized"]]

\* calibrate.py lines 31-44: LogisticRegression.fit, then predict_proba
\* = sigmoid(coef * score + intercept), with coef and intercept persisted.
\* The fit itself is sklearn's; `fit` is the (coef, intercept) it returned.
PlattFitted(scores, fit) ==
    [status |-> "ok",
     calibrated |-> [i \in 1..Len(scores) |->
                        Sigmoid(Add(Mul(fit.scale, scores[i]), fit.offset))],
     params |-> [kind |-> "platt", scale |-> fit.scale, offset |-> fit.offset,
                 version |-> "fitted"]]

\* the mean of y over the rows whose score is in [lo, hi]
BlockMean(scores, y, lo, hi) ==
    Rat(SumInt(y, {i \in 1..Len(scores) : Leq(lo, scores[i]) /\ Leq(scores[i], hi)}),
        Cardinality({i \in 1..Len(scores) : Leq(lo, scores[i]) /\ Leq(scores[i], hi)}))

\* a variant of IsotonicValue that does not pool: the mean of y at score x
IsotonicValueUnpooled(scores, y, x) == BlockMean(scores, y, x, x)

\* IsotonicRegression(out_of_bounds="clip").fit_transform at score x: the
\* non-decreasing least-squares fit (pool adjacent violators), which is
\* max over a <= x of min over b >= x of the mean of y on scores in [a, b]
IsotonicValue(scores, y, x) ==
    MaxNum({ MinNum({ BlockMean(scores, y, a, b) :
                        b \in {c \in ScoreSet(scores) : Leq(x, c)} }) :
             a \in {c \in ScoreSet(scores) : Leq(c, x)} })

\* calibrate.py lines 69-87
Isotonic(scores, y) ==
    [status |-> "ok",
     calibrated |-> [i \in 1..Len(scores) |-> Value(IsotonicValue(scores, y, scores[i]))],
     params |-> [kind |-> "isotonic", scale |-> Num(1), offset |-> Num(0),
                 version |-> "fitted"]]

NotRun == [status |-> "none"]
Raised == [status |-> "error"]

ScoresOf(r) == [i \in 1..Len(cal_in[r]) |-> Num(cal_in[r][i][1])]
LabelsOf(r) == [i \in 1..Len(cal_in[r]) |-> cal_in[r][i][2]]

\* the (coef, intercept) pairs a fit may return in the model
FittedParams == { [scale |-> Num(1), offset |-> Num(0)],
                  [scale |-> Num(2), offset |-> Num(-1)] }

\* platt_calibrate(scores, y_true) for run r; y_true is None when `labelled`
\* is false.  LogisticRegression.fit raises ValueError on one class.
PlattCalibrate(r) ==
    /\ cal_out[r] = NotRun
    /\ \E labelled \in BOOLEAN :
        IF labelled
        THEN IF {LabelsOf(r)[i] : i \in 1..Len(cal_in[r])} = {0, 1}
             THEN \E fit \in FittedParams :
                    cal_out' = [cal_out EXCEPT ![r] = PlattFitted(ScoresOf(r), fit)]
             ELSE cal_out' = [cal_out EXCEPT ![r] = Raised]
        ELSE cal_out' = [cal_out EXCEPT ![r] = PlattNormalized(ScoresOf(r))]
    /\ UNCHANGED <<dataVars, evalVars, featVars, cal_in>>

\* isotonic_calibrate(scores, y_true) for run r
IsotonicCalibrate(r) ==
    /\ cal_out[r] = NotRun
    /\ cal_out' = [cal_out EXCEPT ![r] = Isotonic(ScoresOf(r), LabelsOf(r))]
    /\ UNCHANGED <<dataVars, evalVars, featVars, cal_in>>

MaxCalRows == 2

CalScores == {0, 2}
CalInputs == UNION {[1..n -> CalScores \X {0, 1}] : n \in 1..MaxCalRows}

InitCal ==
    /\ IdleData /\ IdleEval /\ IdleFeat
    /\ cal_in \in [1..2 -> CalInputs]
    /\ cal_out = [r \in 1..2 |-> NotRun]

NextCal == \E r \in 1..2 : PlattCalibrate(r) \/ IsotonicCalibrate(r)

SpecCal == InitCal /\ [][NextCal]_vars

\* C5: both calibrators are reproducible from their persisted parameters
\* alone: two calibration runs (platt_calibrate, fitted or normalized, or
\* isotonic_calibrate) that return equal CalibrationParams map every raw
\* score to the same calibrated value.
C5_ReproducibleFromParams ==
    \A a, b \in 1..2 :
        (cal_out[a].status = "ok" /\ cal_out[b].status = "ok"
            /\ cal_out[a].params = cal_out[b].params) =>
            \A i \in 1..Len(cal_in[a]) : \A j \in 1..Len(cal_in[b]) :
                cal_in[a][i][1] = cal_in[b][j][1] =>
                    cal_out[a].calibrated[i] = cal_out[b].calibrated[j]

(* One call of isotonic_calibrate, on up to MaxIsoRows rows with three      *)
(* distinct scores.                                                        *)
MaxIsoRows == 4

IsoScores == {0, 1, 2}
IsoInputs == UNION {[1..n -> IsoScores \X {0, 1}] : n \in 1..MaxIsoRows}

InitIso ==
    /\ IdleData /\ IdleEval /\ IdleFeat
    /\ \E x \in IsoInputs : cal_in = [r \in 1..2 |-> x]
    /\ cal_out = [r \in 1..2 |-> NotRun]

NextIso == IsotonicCalibrate(1)

SpecIso == InitIso /\ [][NextIso]_vars

IsotonicDone(r) == cal_out[r].status = "ok" /\ cal_out[r].params.kind = "isotonic"

\* C12: in every fit of isotonic_calibrate, for any two raw scores a <= b of
\* the input, the calibrated output for a is <= the calibrated output for b.
C12_IsotonicMonotone ==
    \A r \in 1..2 :
        IsotonicDone(r) =>
            \A i, j \in 1..Len(cal_in[r]) :
                cal_in[r][i][1] <= cal_in[r][j][1] =>
                    Leq(cal_out[r].calibrated[i].arg, cal_out[r].calibrated[j].arg)

\* labels that decrease along the scores are pooled: scores (0, 1, 2, 2) with
\* labels (0, 1, 0, 1) give 0, then 2/3 for the three rows of scores 1 and 2
C12_Witness ==
    /\ IsotonicDone(1)
    /\ cal_in[1] = << <<0, 0>>, <<1, 1>>, <<2, 0>>, <<2, 1>> >>
    /\ cal_out[1].calibrated =
          << Value(Num(0)), Value(<<2, 3>>), Value(<<2, 3>>), Value(<<2, 3>>) >>

----------------------------------------------------------------------------
(* features.py: compute_window_features, for one channel of the table.     *)
(* Channel values are integers.  Rows are numbered from 1: row i is the    *)
(* code's index i - 1.                                                     *)

\* a variant of WindowVals that also takes the row after row i
WindowValsAhead(values, i, size) ==
    SubSeq(values, Max(1, i - size + 1), Min(Len(values), i + 1))

\* values[start_idx : i + 1] with start_idx = max(0, i - size + 1): the
\* trailing `size` rows ending at row i (all of the rows up to i when fewer)
WindowVals(values, i, size) == SubSeq(values, Max(1, i - size + 1), i)

RECURSIVE SumSeq(_, _)
SumSeq(w, k) == IF k = 0 THEN 0 ELSE w[k] + SumSeq(w, k - 1)

RECURSIVE SumSquares(_, _)
SumSquares(w, k) == IF k = 0 THEN 0 ELSE w[k] * w[k] + SumSquares(w, k - 1)

\* sum of x * y over the points (x, y) = (k - 1, w[k])
RECURSIVE SumXY(_, _)
SumXY(w, k) == IF k = 0 THEN 0 ELSE (k - 1) * w[k] + SumXY(w, k - 1)

RECURSIVE MinSeq(_, _)
MinSeq(w, k) == IF k = 1 THEN w[1] ELSE Min(w[k], MinSeq(w, k - 1))

RECURSIVE MaxSeq(_, _)
MaxSeq(w, k) == IF k = 1 THEN w[1] ELSE Max(w[k], MaxSeq(w, k - 1))

\* features.py line 32: int(window_ms * sample_rate_hz / 1000)
WindowSamples(window_ms, sample_rate_hz) == (window_ms * sample_rate_hz) \div 1000

\* a variant of RollingWindow that takes every row up to row i
RollingWindowExpanding(values, i, n) == SubSeq(values, 1, i)

\* df[channel].rolling(window=n, min_periods=1) at row i
RollingWindow(values, i, n) == WindowVals(values, i, n)

\* rolling.mean()
RollingMean(w) == Rat(SumSeq(w, Len(w)), Len(w))

\* a variant of RollingStdSquared: the mean square of the window, not taken
\* about its mean
RollingMeanSquare(w) == Rat(SumSquares(w, Len(w)), Len(w))

\* rolling.std().fillna(0), squared: the sample variance (ddof = 1) of the
\* window, 0 for a single sample.  The feature is its square root.
RollingStdSquared(w) ==
    IF Len(w) < 2 THEN Num(0)
    ELSE Rat(Len(w) * SumSquares(w, Len(w)) - SumSeq(w, Len(w)) * SumSeq(w, Len(w)),
             Len(w) * (Len(w) - 1))

\* features.py lines 44-52: np.polyfit(arange(len), window_vals, 1) slope,
\* times sample_rate_hz / 1000; 0.0 for fewer than 2 points
Slope(w, sample_rate_hz) ==
    IF Len(w) >= 2
    THEN Rat((Len(w) * SumXY(w, Len(w))
                - ((Len(w) * (Len(w) - 1)) \div 2) * SumSeq(w, Len(w))) * sample_rate_hz,
             ((Len(w) * Len(w) * (Len(w) * Len(w) - 1)) \div 12) * 1000)
    ELSE Num(0)

\* features.py line 59: df[channel].diff().fillna(0)
Delta(values, i) == IF i = 1 THEN 0 ELSE values[i] - values[i - 1]

\* features.py line 62: ema_alpha = 0.01, as a fraction
ema_alpha == <<1, 100>>

\* The exponentially weighted statistics are carried in fixed point: a
\* number v is held as the integer v * EwmScale, rounded toward minus
\* infinity after each step.
EwmScale == 10000

\* (1 - alpha) * old + alpha * new, on fixed-point numbers
EwmBlend(old, new) ==
    ((ema_alpha[2] - ema_alpha[1]) * old + ema_alpha[1] * new) \div ema_alpha[2]

EwmSquare(d) == (d * d) \div EwmScale

\* ewm(alpha, adjust=False) on the first row: the mean is the value, the
\* weighted covariance 0, the sum of squared weights 1
EwmFirst(x) == [mean |-> x * EwmScale, cov |-> 0, sum_wt2 |-> EwmScale]

\* one step of the recurrence of ewm(alpha, adjust=False) for mean() and
\* std(): old weights decay by 1 - alpha, the new row has weight alpha
EwmStep(prev, x) ==
    [mean    |-> EwmBlend(prev.mean, x * EwmScale),
     cov     |-> EwmBlend(prev.cov
                            + EwmSquare(prev.mean - EwmBlend(prev.mean, x * EwmScale)),
                          EwmSquare(x * EwmScale - EwmBlend(prev.mean, x * EwmScale))),
     sum_wt2 |-> ((ema_alpha[2] - ema_alpha[1]) * (ema_alpha[2] - ema_alpha[1])
                      * prev.sum_wt2
                    + ema_alpha[1] * ema_alpha[1] * EwmScale)
                 \div (ema_alpha[2] * ema_alpha[2])]

\* the states of the recurrence after each of the rows, continued from the
\* states `before` over the rows lo..hi (split in halves to keep the
\* evaluation shallow)
RECURSIVE EwmFold(_, _, _, _)
EwmFold(before, values, lo, hi) ==
    IF lo > hi \/ Len(before) # lo - 1 THEN before
    ELSE IF lo = hi THEN Append(before, EwmStep(before[lo - 1], values[lo]))
    ELSE EwmFold(EwmFold(before, values, lo, (lo + hi) \div 2),
                 values, (lo + hi) \div 2 + 1, hi)

EwmStates(values, t) == EwmFold(<< EwmFirst(values[1]) >>, values, 2, t)

\* ewm.std() squared (bias=False): undefined on the first row, which line
\* 64 fills with std 1.0
EwmStdSquared(st, t) ==
    IF t = 1 \/ EwmScale - st.sum_wt2 <= 0 THEN EwmScale
    ELSE (st.cov * EwmScale) \div (EwmScale - st.sum_wt2)

\* features.py line 65: (value - ema) / (std_ema + 1e-9), held as the
\* deviation and the squared std_ema it is computed from
ZScore(values, states, t) ==
    [deviation   |-> values[t] * EwmScale - states[t].mean,
     std_squared |-> EwmStdSquared(states[t], t)]

----------------------------------------------------------------------------
(* features.py: compute_anomaly_features, for one channel.                 *)

\* features.py line 136: window_size = 1000
anomaly_window_size == 1000

\* features.py line 145: a window needs at least 10 samples
min_anomaly_samples == 10

\* the k-th smallest entry of a sequence of integers
KthSmallest(w, k) ==
    CHOOSE v \in {w[j] : j \in 1..Len(w)} :
        /\ Cardinality({j \in 1..Len(w) : w[j] < v}) < k
        /\ Cardinality({j \in 1..Len(w) : w[j] <= v}) >= k

\* twice np.median(w): the middle entry, or the mean of the two middle ones
TwiceMedian(w) ==
    IF Len(w) % 2 = 1 THEN 2 * KthSmallest(w, (Len(w) + 1) \div 2)
    ELSE KthSmallest(w, Len(w) \div 2) + KthSmallest(w, Len(w) \div 2 + 1)

\* twice |w - median|, entry by entry, from twice the median
TwiceDeviations(w, twice_median) ==
    [j \in 1..Len(w) |-> Abs(2 * w[j] - twice_median)]

\* np.median(np.abs(window_vals - median))
MedianAbsDeviation(w, twice_median) ==
    Rat(TwiceMedian(TwiceDeviations(w, twice_median)), 4)

\* features.py lines 141-142: the trailing window of row i
AnomalyWindow(values, i) == WindowVals(values, i, anomaly_window_size)

NoAnomaly == [deviation |-> Num(0), mad |-> Num(0)]

\* features.py lines 147-153: |value - median| / (mad + 1e-9) when
\* mad > 0, else 0.  The score is held as the deviation and the mad it is
\* the quotient of; every score that is 0 is NoAnomaly.
ScoreOf(value, twice_median, mad) ==
    IF mad # Num(0) /\ 2 * value # twice_median
    THEN [deviation |-> Rat(Abs(2 * value - twice_median), 2), mad |-> mad]
    ELSE NoAnomaly

WindowScore(w, value, twice_median) ==
    ScoreOf(value, twice_median, MedianAbsDeviation(w, twice_median))

\* features.py lines 145-155: the score of row i, 0 when its window has
\* fewer than 10 samples
AnomalyScore(values, i) ==
    IF Len(AnomalyWindow(values, i)) >= min_anomaly_samples
    THEN WindowScore(AnomalyWindow(values, i), values[i],
                     TwiceMedian(AnomalyWindow(values, i)))
    ELSE NoAnomaly

----------------------------------------------------------------------------
(* features.py: compute_spectral_features, for one channel.                *)

\* features.py line 94: the minimum number of samples for an FFT
min_fft_samples == 32

\* features.py line 86: window_size = min(1000, len(values) // 10)
SpectralWindowSize(values) == Min(1000, Len(values) \div 10)

\* features.py lines 92-93: the trailing window of row i
SpectralWindow(values, i) == WindowVals(values, i, SpectralWindowSize(values))

\* The transform is computed in fixed point for windows of min_fft_samples
\* samples, the only length that passes line 94 in tables of fewer than
\* 330 rows: cos(2 pi j / 32) in hundredths, for j = 0..8.
rfft_cos == <<100, 98, 92, 83, 71, 56, 38, 20, 0>>

\* cos(2 pi j / 32) in hundredths, for any integer j >= 0
Cos32(j) ==
    IF j % 32 <= 8 THEN rfft_cos[(j % 32) + 1]
    ELSE IF j % 32 <= 16 THEN 0 - rfft_cos[17 - (j % 32)]
    ELSE IF j % 32 <= 24 THEN 0 - rfft_cos[(j % 32) - 15]
    ELSE rfft_cos[33 - (j % 32)]

\* sin(2 pi j / 32) = cos(2 pi (j - 8) / 32)
Sin32(j) == Cos32(j + 24)

\* real and imaginary part of bin k of np.fft.rfft(w), over the samples
\* w[1..n] (sample w[m] has index m - 1)
RECURSIVE RfftRe(_, _, _)
RfftRe(w, k, n) ==
    IF n = 0 THEN 0 ELSE w[n] * Cos32(k * (n - 1)) + RfftRe(w, k, n - 1)

RECURSIVE RfftIm(_, _, _)
RfftIm(w, k, n) ==
    IF n = 0 THEN 0 ELSE RfftIm(w, k, n - 1) - w[n] * Sin32(k * (n - 1))

SquaredModulus(re, im) == re * re + im * im

\* features.py line 98: power = np.abs(fft_vals) ** 2, bins 0..len // 2
Power(w) ==
    [b \in 1..(Len(w) \div 2 + 1) |->
        SquaredModulus(RfftRe(w, b - 1, Len(w)), RfftIm(w, b - 1, Len(w)))]

\* np.argmax(power[1:]) + 1: the first bin after the DC bin of maximal power
DominantIdx(power) ==
    CHOOSE b \in 1..(Len(power) - 1) :
        /\ \A c \in 1..(Len(power) - 1) : power[c + 1] <= power[b + 1]
        /\ \A c \in 1..(b - 1) : power[c + 1] < power[b + 1]

NoSpectrum == [energy |-> Num(0), dominant_freq |-> Num(0)]

\* features.py lines 101-107: np.sum(power), and freqs[dominant_idx] with
\* freqs = rfftfreq(len, 1 / sample_rate_hz)
Spectrum(w, power, sample_rate_hz) ==
    [energy        |-> Rat(SumSeq(power, Len(power)), 10000),
     dominant_freq |-> Rat(DominantIdx(power) * sample_rate_hz, Len(w))]

\* features.py lines 94-110: energy and dominant frequency of row i
SpectralFeatures(values, i, sample_rate_hz) ==
    IF Len(SpectralWindow(values, i)) >= min_fft_samples
    THEN Spectrum(SpectralWindow(values, i), Power(SpectralWindow(values, i)),
                  sample_rate_hz)
    ELSE NoSpectrum

----------------------------------------------------------------------------
(* The feature functions on a table.  A table is a record                  *)
(* [shots, values]: the shot_id column and one channel column.             *)

\* the columns of one window size: one record per row
WindowRow(values, states, i, n, sample_rate_hz) ==
    [mean        |-> RollingMean(RollingWindow(values, i, n)),
     std_squared |-> RollingStdSquared(RollingWindow(values, i, n)),
     min         |-> MinSeq(RollingWindow(values, i, n), Len(RollingWindow(values, i, n))),
     max         |-> MaxSeq(RollingWindow(values, i, n), Len(RollingWindow(values, i, n))),
     slope       |-> Slope(WindowVals(values, i, n), sample_rate_hz),
     last        |-> RollingWindow(values, i, n)[Len(RollingWindow(values, i, n))],
     delta       |-> Delta(values, i),
     zscore      |-> ZScore(values, states, i)]

WindowColumns(values, states, n, sample_rate_hz) ==
    [i \in 1..Len(values) |-> WindowRow(values, states, i, n, sample_rate_hz)]

\* a variant of WindowFeatures that computes a window of less than one sample
\* as a window of one sample
WindowFeaturesClamped(df, windows_ms, sample_rate_hz) ==
    [status  |-> "ok",
     columns |-> [k \in 1..Len(windows_ms) |->
                     WindowColumns(df.values,
                                   EwmStates(df.values, Len(df.values)),
                                   Max(1, WindowSamples(windows_ms[k], sample_rate_hz)),
                                   sample_rate_hz)]]

\* compute_window_features(df, [channel], windows_ms, sample_rate_hz):
\* rolling(window=n, min_periods=1) raises ValueError for n < 1
WindowFeatures(df, windows_ms, sample_rate_hz) ==
    IF \E k \in 1..Len(windows_ms) : WindowSamples(windows_ms[k], sample_rate_hz) < 1
    THEN Raised
    ELSE [status  |-> "ok",
          columns |-> [k \in 1..Len(windows_ms) |->
                          WindowColumns(df.values,
                                        EwmStates(df.values, Len(df.values)),
                                        WindowSamples(windows_ms[k], sample_rate_hz),
                                        sample_rate_hz)]]

\* compute_spectral_features(df, [channel], sample_rate_hz)
SpectralColumns(df, sample_rate_hz) ==
    [status  |-> "ok",
     columns |-> [i \in 1..Len(df.values) |->
                     SpectralFeatures(df.values, i, sample_rate_hz)]]

\* compute_anomaly_features(df, [channel])
AnomalyColumns(df) ==
    [status  |-> "ok",
     columns |-> [i \in 1..Len(df.values) |-> AnomalyScore(df.values, i)]]

Called(runs) == [status |-> "called", runs |-> runs]

(* Each function is called on two tables, feat_in.tables[1] and            *)
(* feat_in.tables[2], which differ in the channel value of one row.        *)
ComputeWindowFeatures ==
    /\ feat_out.window = NotRun
    /\ feat_out' = [feat_out EXCEPT !.window =
                       Called([r \in 1..2 |-> WindowFeatures(feat_in.tables[r],
                                                             feat_in.windows_ms,
                                                             feat_in.sample_rate_hz)])]
    /\ UNCHANGED <<feat_in, dataVars, evalVars, calVars>>

ComputeSpectralFeatures ==
    /\ feat_out.spectral = NotRun
    /\ feat_out' = [feat_out EXCEPT !.spectral =
                       Called([r \in 1..2 |-> SpectralColumns(feat_in.tables[r],
                                                              feat_in.sample_rate_hz)])]
    /\ UNCHANGED <<feat_in, dataVars, evalVars, calVars>>

ComputeAnomalyFeatures ==
    /\ feat_out.anomaly = NotRun
    /\ feat_out' = [feat_out EXCEPT !.anomaly =
                       Called([r \in 1..2 |-> AnomalyColumns(feat_in.tables[r])])]
    /\ UNCHANGED <<feat_in, dataVars, evalVars, calVars>>

(* Inputs: short tables with every combination of values, tables long      *)
(* enough for the anomaly window (10 rows) and tables long enough for the  *)
(* spectral window (32 rows of a table of 320).                            *)
MaxRows == 3
MidRows == 11
BigRows == 320

ChannelValues == {0, 1, 2}

\* shot "A" in the rows 1..boundary, shot "B" after them
Shots(len, boundary) == [i \in 1..len |-> IF i <= boundary THEN "A" ELSE "B"]

\* the table, and the table with the value of row m replaced by v
FeatInput(values, boundary, m, v, windows_ms, sample_rate_hz) ==
    [tables         |-> << [shots  |-> Shots(Len(values), boundary),
                            values |-> values],
                           [shots  |-> Shots(Len(values), boundary),
                            values |-> [values EXCEPT ![m] = v]] >>,
     changed        |-> m,
     windows_ms     |-> windows_ms,
     sample_rate_hz |-> sample_rate_hz]

\* <<windows_ms, sample_rate_hz>>: 2 and 3 samples; 2 and 1 samples; 0 and
\* 2 samples
WindowConfigs == { << <<2, 3>>, 1000 >>, << <<4, 2>>, 500 >>, << <<1, 4>>, 500 >> }

SmallValues == UNION { [1..len -> ChannelValues] : len \in 1..MaxRows }

\* <<values, boundary, changed row, new value>>
SmallChoices ==
    { u \in SmallValues \X (0..MaxRows) \X (1..MaxRows) \X ChannelValues :
        /\ u[2] < Len(u[1])
        /\ u[3] <= Len(u[1])
        /\ u[4] # u[1][u[3]] }

SmallInputs ==
    { FeatInput(t[1], t[2], t[3], t[4], c[1], c[2]) :
        t \in SmallChoices, c \in WindowConfigs }

MidValues ==
    { [i \in 1..MidRows |-> i % 3],
      [i \in 1..MidRows |-> (i * i) % 3],
      [i \in 1..MidRows |-> Min(2, (i - 1) \div 5)],
      [i \in 1..MidRows |-> 1] }

MidInputs ==
    { FeatInput(values, boundary, m, (values[m] + 1) % 3, <<2>>, 1000) :
        values \in MidValues, boundary \in {0, 5, 10}, m \in 1..MidRows }

BigValues == [i \in 1..BigRows |-> (i % 3) + (IF i % 5 = 0 THEN 1 ELSE 0)]

BigInputs ==
    { FeatInput(BigValues, t[1], t[2], (BigValues[t[2]] + 1) % 3, <<2>>, 1000) :
        t \in { <<0, BigRows>>, <<50, 100>> } }

InitFeat ==
    /\ IdleData /\ IdleEval /\ IdleCal
    /\ feat_in \in SmallInputs \cup MidInputs \cup BigInputs
    /\ feat_out = [window |-> NotRun, spectral |-> NotRun, anomaly |-> NotRun]

NextFeat ==
    \/ ComputeWindowFeatures
    \/ ComputeSpectralFeatures
    \/ ComputeAnomalyFeatures

SpecFeat == InitFeat /\ [][NextFeat]_vars

----------------------------------------------------------------------------
(* Properties of the feature functions.                                    *)

Table(r) == feat_in.tables[r]
NumRows == Len(Table(1).values)
TwoShots == Table(1).shots[1] = "A"
FirstRowOfB == CHOOSE i \in 1..NumRows : Table(1).shots[i] = "B" /\ (i = 1 \/ Table(1).shots[i - 1] = "A")
ChangedInA == Table(1).shots[feat_in.changed] = "A"

WindowOk == feat_out.window # NotRun /\ feat_out.window.runs[1].status = "ok"
SpectralOk == feat_out.spectral # NotRun
AnomalyOk == feat_out.anomaly # NotRun

WindowAt(r, k, i) == feat_out.window.runs[r].columns[k][i]
SpectralAt(r, i) == feat_out.spectral.runs[r].columns[i]
AnomalyAt(r, i) == feat_out.anomaly.runs[r].columns[i]

\* the features of a rolling window that holds the single sample v
SingleSample(row, v) ==
    /\ row.mean = Num(v) /\ row.min = v /\ row.max = v /\ row.last = v
    /\ row.std_squared = Num(0) /\ row.slope = Num(0)

\* C2: in a table of shot A followed by shot B, the window features and the
\* anomaly score at B's first row are the same whatever the values of A's
\* rows are, delta is 0 there and the rolling window holds only B's first
\* sample.
C2_ShotBoundaryIsolation ==
    (TwoShots /\ ChangedInA) =>
        /\ WindowOk =>
              \A k \in 1..Len(feat_in.windows_ms) :
                  /\ WindowAt(1, k, FirstRowOfB) = WindowAt(2, k, FirstRowOfB)
                  /\ WindowAt(1, k, FirstRowOfB).delta = 0
                  /\ SingleSample(WindowAt(1, k, FirstRowOfB),
                                  Table(1).values[FirstRowOfB])
        /\ AnomalyOk => AnomalyAt(1, FirstRowOfB) = AnomalyAt(2, FirstRowOfB)

\* the rows before the changed row, in its shot
EarlierRows ==
    { i \in 1..NumRows : i < feat_in.changed
                          /\ Table(1).shots[i] = Table(1).shots[feat_in.changed] }

\* C4: every window, spectral and anomaly feature value at row i is
\* unchanged when the channel value of a row after i in the same shot is
\* changed.
C4_RollingWindowCausality ==
    \A i \in EarlierRows :
        /\ WindowOk => \A k \in 1..Len(feat_in.windows_ms) :
                           WindowAt(1, k, i) = WindowAt(2, k, i)
        /\ SpectralOk => SpectralAt(1, i) = SpectralAt(2, i)
        /\ AnomalyOk => AnomalyAt(1, i) = AnomalyAt(2, i)

\* all three functions have run on a table whose last row was changed; an
\* earlier row of its shot has a window with spread, a spectrum and an
\* anomaly score, and the change shows in all three features of the changed
\* row
C4_Witness ==
    /\ WindowOk /\ SpectralOk /\ AnomalyOk
    /\ feat_in.changed = NumRows
    /\ \E i \in EarlierRows :
          /\ WindowAt(1, 1, i).std_squared # Num(0)
          /\ SpectralAt(1, i) # NoSpectrum
          /\ AnomalyAt(1, i) # NoAnomaly
    /\ WindowAt(1, 1, NumRows) # WindowAt(2, 1, NumRows)
    /\ SpectralAt(1, NumRows) # SpectralAt(2, NumRows)
    /\ AnomalyAt(1, NumRows) # AnomalyAt(2, NumRows)

\* some window of windows_ms resolves to less than one sample
InvalidWindow ==
    \E k \in 1..Len(feat_in.windows_ms) :
        WindowSamples(feat_in.windows_ms[k], feat_in.sample_rate_hz) < 1

\* C14: compute_window_features rejects a window size of n < 1 samples with
\* an error, whatever the table and wherever the window is in windows_ms: it
\* returns no table then, so no feature is ever computed with n < 1; with
\* every n >= 1 it returns the features of every window.
C14_WindowBelowOneSampleRejected ==
    feat_out.window # NotRun =>
        \A r \in 1..2 :
            IF InvalidWindow
            THEN feat_out.window.runs[r] = Raised
            ELSE /\ feat_out.window.runs[r].status = "ok"
                 /\ DOMAIN feat_out.window.runs[r].columns = 1..Len(feat_in.windows_ms)

\* windows of 1 ms and 4 ms at 500 Hz are 0 and 2 samples: the call raised
C14_Witness ==
    /\ feat_out.window # NotRun
    /\ feat_in.windows_ms = <<1, 4>>
    /\ feat_in.sample_rate_hz = 500
    /\ WindowSamples(1, 500) = 0
    /\ feat_out.window.runs[1] = Raised
    /\ feat_out.window.runs[2] = Raised

SingleShot(r) == \A i \in 1..NumRows : Table(r).shots[i] = Table(r).shots[1]
ConstantChannel(r) == \A i \in 1..NumRows : Table(r).values[i] = Table(r).values[1]

\* C15: for a table of a single shot whose channel has the same value in
\* every row, std and slope are 0 at every row for every window size, and
\* the anomaly score is 0 at every row.
C15_ConstantChannel ==
    \A r \in 1..2 :
        (SingleShot(r) /\ ConstantChannel(r)) =>
            /\ WindowOk =>
                  \A k \in 1..Len(feat_in.windows_ms) : \A i \in 1..NumRows :
                      /\ WindowAt(r, k, i).std_squared = Num(0)
                      /\ WindowAt(r, k, i).slope = Num(0)
            /\ AnomalyOk => \A i \in 1..NumRows : AnomalyAt(r, i) = NoAnomaly

\* a constant non-zero channel over enough rows for the anomaly window, with
\* both functions run; the second table, with one value changed, has spread
C15_Witness ==
    /\ WindowOk /\ AnomalyOk
    /\ SingleShot(1) /\ ConstantChannel(1)
    /\ Table(1).values[1] = 1
    /\ NumRows >= min_anomaly_samples
    /\ \E i \in 1..NumRows : WindowAt(2, 1, i).std_squared # Num(0)

\* the rows max(0, i - n + 1)..i of the claim, numbered from 1
TrailingRows(i, n) == Max(1, i - n + 1)..i

\* sums over the trailing rows of row i: of the values, of their squares, of
\* the positions 0, 1, ... in the window, of their squares and of
\* position * value
TrailingSum(v, i, n) == SumInt(v, TrailingRows(i, n))
TrailingSumSq(v, i, n) == SumInt([j \in 1..Len(v) |-> v[j] * v[j]], TrailingRows(i, n))
TrailingSumX(v, i, n) ==
    SumInt([j \in 1..Len(v) |-> j - Max(1, i - n + 1)], TrailingRows(i, n))
TrailingSumXX(v, i, n) ==
    SumInt([j \in 1..Len(v) |-> (j - Max(1, i - n + 1)) * (j - Max(1, i - n + 1))],
           TrailingRows(i, n))
TrailingSumXY(v, i, n) ==
    SumInt([j \in 1..Len(v) |-> (j - Max(1, i - n + 1)) * v[j]], TrailingRows(i, n))

\* the features `row` are those of the m samples v[j], j in TrailingRows(i, n)
OverTrailingRows(row, v, i, n, m, rate) ==
    /\ m = Min(i, n)
    /\ row.mean[2] > 0 /\ row.mean[1] * m = TrailingSum(v, i, n) * row.mean[2]
    /\ row.min \in {v[j] : j \in TrailingRows(i, n)}
    /\ row.max \in {v[j] : j \in TrailingRows(i, n)}
    /\ \A j \in TrailingRows(i, n) : row.min <= v[j] /\ v[j] <= row.max
    /\ row.std_squared[2] > 0 /\ row.slope[2] > 0
    /\ IF m = 1
       THEN row.std_squared = Num(0) /\ row.slope = Num(0)
       ELSE /\ row.std_squared[1] * m * (m - 1) =
                  (m * TrailingSumSq(v, i, n) - TrailingSum(v, i, n) * TrailingSum(v, i, n))
                      * row.std_squared[2]
            /\ row.slope[1] * 1000
                  * (m * TrailingSumXX(v, i, n) - TrailingSumX(v, i, n) * TrailingSumX(v, i, n)) =
                  (m * TrailingSumXY(v, i, n) - TrailingSumX(v, i, n) * TrailingSum(v, i, n))
                      * rate * row.slope[2]

\* C17: for a single-shot table and a window of n >= 1 samples, the rolling
\* mean, std, min and max and the slope fit at every row i are those of
\* exactly the rows max(0, i - n + 1)..i, that is min(i + 1, n) samples ending
\* at the row; std and slope are 0 when that is a single sample.
C17_TrailingWindow ==
    \A r \in 1..2 :
        (WindowOk /\ SingleShot(r)) =>
            \A k \in 1..Len(feat_in.windows_ms) : \A i \in 1..NumRows :
                OverTrailingRows(WindowAt(r, k, i), Table(r).values, i,
                                 WindowSamples(feat_in.windows_ms[k], feat_in.sample_rate_hz),
                                 Cardinality(TrailingRows(i,
                                     WindowSamples(feat_in.windows_ms[k],
                                                   feat_in.sample_rate_hz))),
                                 feat_in.sample_rate_hz)

\* values (2, 0, 1) in one shot, windows of 2 and 3 samples: the last row has
\* mean 1/2, variance 1/2 and slope 1 over (0, 1), and mean 1, variance 1
\* and slope -1/2 over (2, 0, 1); the first row has a single sample
C17_Witness ==
    /\ WindowOk /\ SingleShot(1)
    /\ Table(1).values = <<2, 0, 1>>
    /\ feat_in.windows_ms = <<2, 3>> /\ feat_in.sample_rate_hz = 1000
    /\ WindowAt(1, 1, 3).mean = <<1, 2>> /\ WindowAt(1, 1, 3).std_squared = <<1, 2>>
    /\ WindowAt(1, 1, 3).slope = Num(1) /\ WindowAt(1, 1, 3).min = 0
    /\ WindowAt(1, 2, 3).mean = Num(1) /\ WindowAt(1, 2, 3).std_squared = Num(1)
    /\ WindowAt(1, 2, 3).slope = <<-1, 2>> /\ WindowAt(1, 2, 3).max = 2
    /\ WindowAt(1, 1, 1).std_squared = Num(0) /\ WindowAt(1, 1, 1).slope = Num(0)

====
